---- MODULE Spec2Model ----
(***************************************************************************)
(* Streak engine of the fitness tracker (services/runService.ts).          *)
(*                                                                         *)
(* Time.  A JavaScript Date is modelled by its local wall-clock position   *)
(* counted in half days: Date t lies on local calendar day t \div 2, in    *)
(* the first (t % 2 = 0) or second half of that day.  The device's time    *)
(* zone tz is -1 (west of UTC), 0 (UTC) or 1 (east of UTC), in the same    *)
(* unit, so the UTC calendar day of Date t is (t - tz) \div 2: east of UTC *)
(* the UTC day is the previous local day during the first part of the      *)
(* day, west of UTC it is the next local day during the last part.         *)
(* Calendar days ("YYYY-MM-DD" strings, compared as strings by SQLite) are *)
(* integers; a calendar month is DaysPerMonth consecutive days.            *)
(***************************************************************************)
EXTENDS Integers, FiniteSets, Sequences, TLC

\* ---------------------------------------------------------------- bounds
MaxDay == 2            \* local days 0..MaxDay are simulated
DaysPerMonth == 2      \* length of a calendar month, in days
MaxRuns == 3           \* rows of table runs
MaxStreaks == 2        \* rows of table streaks
MaxFreezes == 3        \* rows of table streak_freezes
MaxQuota == 3          \* values 1..MaxQuota of the monthlyFreezes setting
MaxOps == 4            \* calls made in a sequence of core operations

Days == 0..MaxDay
\* the runs logged, as <<distance, duration>>: a short slow one and a long
\* fast one; the thresholds that let every run pass and those that let only
\* the longer distance, the longer duration pass
RunKinds == {<<1, 2>>, <<2, 1>>}
MinDistances == {0, 2}
MinDurations == {0, 2}
TimeZones == {-1, 0, 1}
MaxTick == 2 * MaxDay + 1

VARIABLES
  now,             \* the wall clock: new Date()
  tz,              \* the device's time zone
  runs,            \* table runs
  streaks,         \* table streaks
  streak_freezes,  \* table streak_freezes
  monthlyFreezes,  \* the monthlyFreezes setting
  lastOp,          \* the last completed call: its name, arguments, result
  longStore,       \* the long history a loop-level walk runs on (0: none)
  w,               \* the loop state of that walk
  nOps,            \* the number of calls completed so far
  streakMinDistance, \* the streakMinDistance setting
  streakMinDuration, \* the streakMinDuration setting
  calls,           \* the updateStreak calls in flight, step by step
  workouts,        \* table workouts
  exercises,       \* table exercises, each entry with its rows of table sets
  personal_records, \* table personal_records
  clock,           \* Date.now(), in seconds
  isSyncing,       \* isSyncing.current of the health sync hook
  lastSyncTime,    \* lastSyncTime.current
  debounceTimer,   \* the pending debounce timer: the second it is due
  syncTimeout,     \* syncTimeout.current: the handle of a safety timer
  timers,          \* the safety timers pending, as [id, at]
  inFlight,        \* the syncRecentFromHealthKit calls in flight
  syncStarts       \* the seconds at which a sync was started

tables == <<runs, streaks, streak_freezes>>
thresholds == <<streakMinDistance, streakMinDuration>>
liftTables == <<workouts, exercises, personal_records>>
healthSync == <<clock, isSyncing, lastSyncTime, debounceTimer, syncTimeout,
                timers, inFlight, syncStarts>>
vars == <<now, tz, runs, streaks, streak_freezes, monthlyFreezes, lastOp,
          longStore, w, nOps, thresholds, calls, liftTables, healthSync>>

\* ------------------------------------------------------------ Date values
\* date.toISOString().split('T')[0]: the UTC calendar day of a Date
toISODate(t, zone) == (t - zone) \div 2

\* date.setHours(0, 0, 0, 0): local midnight of the Date's local day
setHoursMidnight(t) == t - (t % 2)

\* date.getDate() / getMonth() / getFullYear(): the local calendar day
localDay(t) == t \div 2

\* the calendar month a day lies in
monthOf(d) == d \div DaysPerMonth

\* new Date(today.getFullYear(), today.getMonth(), 1): local midnight of the
\* first day of the Date's local month
firstOfMonth(t) == 2 * (monthOf(localDay(t)) * DaysPerMonth)

\* ------------------------------------------------------------ table rows
NULL == {}
Val(v) == {v}

Run(id, date, distance, duration) ==
  [id |-> id, date |-> date, distance |-> distance, duration |-> duration]

Streak(id, startDate, endDate, currentLength, isActive, freezesUsed) ==
  [id |-> id, startDate |-> startDate, endDate |-> endDate,
   currentLength |-> currentLength, isActive |-> isActive,
   freezesUsed |-> freezesUsed]

Freeze(id, streakId, date) == [id |-> id, streakId |-> streakId, date |-> date]

\* uuidv4(): an id no row of the table carries (the least one, so that two
\* stores that differ only in the names of their ids are one state)
newId(T) == CHOOSE i \in 1..(Cardinality(T) + 1) :
              /\ \A r \in T : r.id # i
              /\ \A j \in 1..(i - 1) : \E r \in T : r.id = j

\* ---------------------------------------------------------------- queries
\* (the query with its flag inverted: WHERE isActive = 0)
getCurrentStreakEnded(S) ==
  {s \in S : ~s.isActive /\ \A o \in S : ~o.isActive => o.startDate <= s.startDate}

\* SELECT * FROM streaks WHERE isActive = 1 ORDER BY startDate DESC LIMIT 1:
\* the rows the query may return (every active row of the latest startDate)
getCurrentStreak(S) ==
  {s \in S : s.isActive /\ \A o \in S : o.isActive => o.startDate <= s.startDate}

\* SELECT * FROM runs WHERE date = ? AND distance >= ? AND duration >= ? LIMIT 1
qualifyingRun(R, dateStr, minDistance, minDuration) ==
  \E r \in R : r.date = dateStr /\ r.distance >= minDistance
                                /\ r.duration >= minDuration

\* SELECT * FROM streak_freezes sf JOIN streaks s ON sf.streakId = s.id
\* WHERE sf.date = ? AND s.isActive = 1
activeFreeze(S, F, dateStr) ==
  \E sf \in F : sf.date = dateStr /\ \E s \in S : s.id = sf.streakId /\ s.isActive

SafetyLimit == 3650

\* (the day taken as it is, without setHours)
todayOfNow(t) == t

\* today = new Date(); today.setHours(0, 0, 0, 0)
todayOf(t) == setHoursMidnight(t)

\* (a walk on which a day covered by a freeze increments the count as well)
walkStepFreezeCounts(R, S, F, zone, today, minDistance, minDuration, l) ==
  LET dateStr == toISODate(l.currentDate, zone)
      run     == qualifyingRun(R, dateStr, minDistance, minDuration)
      freeze  == activeFreeze(S, F, dateStr)
      broken  == ~run /\ ~freeze /\ l.currentDate # today
      count   == IF run \/ freeze THEN l.streakCount + 1 ELSE l.streakCount
  IN  [currentDate |-> IF broken THEN l.currentDate ELSE l.currentDate - 2,
       streakCount |-> count,
       done        |-> broken \/ count > SafetyLimit,
       iterations  |-> l.iterations + 1]

\* One iteration of the while loop of calculateCurrentStreak.  l is the loop
\* state: currentDate, streakCount, whether the loop has been left (done),
\* and the number of iterations made.
walkStep(R, S, F, zone, today, minDistance, minDuration, l) ==
  LET dateStr == toISODate(l.currentDate, zone)
      run     == qualifyingRun(R, dateStr, minDistance, minDuration)
      freeze  == activeFreeze(S, F, dateStr)
      broken  == ~run /\ ~freeze /\ l.currentDate # today
      count   == IF run THEN l.streakCount + 1 ELSE l.streakCount
  IN  [currentDate |-> IF broken THEN l.currentDate ELSE l.currentDate - 2,
       streakCount |-> count,
       done        |-> broken \/ count > SafetyLimit,
       iterations  |-> l.iterations + 1]

\* let streakCount = 0; let currentDate = new Date(today)
walkStart(today) ==
  [currentDate |-> today, streakCount |-> 0, done |-> FALSE, iterations |-> 0]

\* The while loop, with the trace of the walk: the date strings it looked up
\* (visited) and those at which streakCount was incremented (counted).
RECURSIVE walkLoop(_, _, _, _, _, _, _, _, _, _)
walkLoop(R, S, F, zone, today, minDistance, minDuration, l, visited, counted) ==
  IF l.done
  THEN [streakCount |-> l.streakCount, iterations |-> l.iterations,
        visited |-> visited, counted |-> counted]
  ELSE LET n == walkStep(R, S, F, zone, today, minDistance, minDuration, l)
           dateStr == toISODate(l.currentDate, zone)
       IN  walkLoop(R, S, F, zone, today, minDistance, minDuration, n,
                    visited \cup {dateStr},
                    IF n.streakCount > l.streakCount
                    THEN counted \cup {dateStr} ELSE counted)

\* the whole walk of calculateCurrentStreak called at Date t
walk(R, S, F, zone, t, minDistance, minDuration) ==
  walkLoop(R, S, F, zone, todayOf(t), minDistance, minDuration,
           walkStart(todayOf(t)), {}, {})

calculateCurrentStreak(R, S, F, zone, t, minDistance, minDuration) ==
  walk(R, S, F, zone, t, minDistance, minDuration).streakCount

\* -------------------------------------------------------------- operations
\* lastOp: the call, its arguments, what it returned (for updateStreak, the
\* branch it took), and whether it repeats the call before it
Op(name, arg, ret) == [op |-> name, arg |-> arg, ret |-> ret, again |-> FALSE]

\* (a new streak that starts with length 0)
updateStreakRowsFromZero(R, S, F, zone, t, runDate) ==
  IF getCurrentStreak(S) = {}
  THEN {S \cup {Streak(newId(S), runDate, NULL, 0, TRUE, 0)}}
  ELSE {(S \ {currentStreak}) \cup
          {[currentStreak EXCEPT
              !.currentLength = calculateCurrentStreak(R, S, F, zone, t, 0, 0),
              !.endDate = NULL]} : currentStreak \in getCurrentStreak(S)}

\* (a streak whose length is incremented instead of recomputed)
updateStreakRowsIncrement(R, S, F, zone, t, runDate) ==
  IF getCurrentStreak(S) = {}
  THEN {S \cup {Streak(newId(S), runDate, NULL, 1, TRUE, 0)}}
  ELSE {(S \ {currentStreak}) \cup
          {[currentStreak EXCEPT !.currentLength = @ + 1, !.endDate = NULL]} :
             currentStreak \in getCurrentStreak(S)}

\* the effect of updateStreak(runDate) on table streaks, read from store
\* (R, S, F): the tables it may leave
updateStreakRows(R, S, F, zone, t, runDate) ==
  IF getCurrentStreak(S) = {}
  THEN {S \cup {Streak(newId(S), runDate, NULL, 1, TRUE, 0)}}
  ELSE {(S \ {currentStreak}) \cup
          {[currentStreak EXCEPT
              !.currentLength = calculateCurrentStreak(R, S, F, zone, t, 0, 0),
              !.endDate = NULL]} : currentStreak \in getCurrentStreak(S)}

updateStreakBranch(S) == IF getCurrentStreak(S) = {} THEN "insert" ELSE "update"

canInsertStreak(S) == getCurrentStreak(S) = {} => Cardinality(S) < MaxStreaks

updateStreak(runDate) ==
  /\ canInsertStreak(streaks)
  /\ streaks' \in updateStreakRows(runs, streaks, streak_freezes, tz, now, runDate)
  /\ lastOp' = Op("updateStreak", <<runDate>>, <<updateStreakBranch(streaks)>>)
  /\ UNCHANGED <<now, tz, runs, streak_freezes, monthlyFreezes, longStore, w,
                 thresholds, calls, liftTables, healthSync>>

\* createRun(distance, duration, ..., date): date = NULL when it is omitted
createRun(distance, duration, date) ==
  LET runDate == IF date = NULL THEN toISODate(now, tz)
                 ELSE CHOOSE d \in date : TRUE
      newRuns == runs \cup {Run(newId(runs), runDate, distance, duration)}
  IN  /\ Cardinality(runs) < MaxRuns
      /\ canInsertStreak(streaks)
      /\ runs' = newRuns
      /\ streaks' \in updateStreakRows(newRuns, streaks, streak_freezes, tz, now, runDate)
      /\ lastOp' = Op("createRun", <<runDate>>, <<updateStreakBranch(streaks)>>)
      /\ UNCHANGED <<now, tz, streak_freezes, monthlyFreezes, longStore, w,
                     thresholds, calls, liftTables, healthSync>>

\* SELECT COUNT(*) FROM streak_freezes WHERE streakId = ? AND date >= ?, with
\* firstOfMonth.toISOString().split('T')[0] for the date
freezesThisMonth(F, streakId, zone, t) ==
  Cardinality({sf \in F : /\ sf.streakId = streakId
                          /\ sf.date >= toISODate(firstOfMonth(t), zone)})

\* (the quota test off by one)
quotaReachedAbove(count, setting) == count > 2

\* if ((freezesThisMonth?.count || 0) >= 2) return false
quotaReached(count, setting) == count >= 2

\* (the counter left as it is)
freezeUsedNot(currentStreak) == currentStreak

\* UPDATE streaks SET freezesUsed = freezesUsed + 1 WHERE id = ?
freezeUsed(currentStreak) == [currentStreak EXCEPT !.freezesUsed = @ + 1]

useStreakFreeze(date) ==
  IF getCurrentStreak(streaks) = {}
  THEN /\ lastOp' = Op("useStreakFreeze", <<>>, <<FALSE>>)
       /\ UNCHANGED <<now, tz, runs, streaks, streak_freezes, monthlyFreezes, longStore, w,
                      thresholds, calls, liftTables, healthSync>>
  ELSE \E currentStreak \in getCurrentStreak(streaks) :
         IF quotaReached(freezesThisMonth(streak_freezes, currentStreak.id, tz, now),
                         monthlyFreezes)
         THEN /\ lastOp' = Op("useStreakFreeze", <<>>, <<FALSE>>)
              /\ UNCHANGED <<now, tz, runs, streaks, streak_freezes, monthlyFreezes, longStore, w,
                             thresholds, calls, liftTables, healthSync>>
         ELSE /\ Cardinality(streak_freezes) < MaxFreezes
              /\ streak_freezes' = streak_freezes \cup
                   {Freeze(newId(streak_freezes), currentStreak.id, date)}
              /\ streaks' = (streaks \ {currentStreak}) \cup
                   {freezeUsed(currentStreak)}
              /\ lastOp' = Op("useStreakFreeze", <<>>, <<TRUE>>)
              /\ UNCHANGED <<now, tz, runs, monthlyFreezes, longStore, w,
                             thresholds, calls, liftTables, healthSync>>

\* (the end date written, the flag left as it is)
streakEndedStillActive(currentStreak, today) ==
  [currentStreak EXCEPT !.endDate = Val(today)]

\* UPDATE streaks SET isActive = 0, endDate = ? WHERE id = ?
streakEnded(currentStreak, today) ==
  [currentStreak EXCEPT !.isActive = FALSE, !.endDate = Val(today)]

endStreak ==
  /\ IF getCurrentStreak(streaks) = {}
     THEN streaks' = streaks
     ELSE \E currentStreak \in getCurrentStreak(streaks) :
            streaks' = (streaks \ {currentStreak}) \cup
              {streakEnded(currentStreak, toISODate(now, tz))}
  /\ lastOp' = Op("endStreak", <<>>, <<>>)
  /\ UNCHANGED <<now, tz, runs, streak_freezes, monthlyFreezes, longStore, w,
                 thresholds, calls, liftTables, healthSync>>

deleteRun(runId) ==
  /\ runs' = {r \in runs : r.id # runId}
  /\ lastOp' = Op("deleteRun", <<>>, <<>>)
  /\ UNCHANGED <<now, tz, streaks, streak_freezes, monthlyFreezes, longStore, w,
                 thresholds, calls, liftTables, healthSync>>

\* a caller (HomeScreen, RunScreen) reads the streak
callCalculateCurrentStreak(minDistance, minDuration) ==
  LET call == Op("calculateCurrentStreak",
                 <<minDistance, minDuration, localDay(now)>>,
                 <<calculateCurrentStreak(runs, streaks, streak_freezes, tz, now,
                                          minDistance, minDuration)>>)
  IN  /\ lastOp' = [call EXCEPT !.again = lastOp.op = call.op /\ lastOp.arg = call.arg]
      /\ UNCHANGED <<now, tz, runs, streaks, streak_freezes, monthlyFreezes, longStore, w,
                     thresholds, calls, liftTables, healthSync>>

\* updateSetting('monthlyFreezes', value)
updateSetting(value) ==
  /\ monthlyFreezes' = value
  /\ lastOp' = Op("updateSetting", <<value>>, <<>>)
  /\ UNCHANGED <<now, tz, runs, streaks, streak_freezes, longStore, w,
                 thresholds, calls, liftTables, healthSync>>

\* time passes
Tick ==
  /\ now < MaxTick
  /\ now' = now + 1
  /\ UNCHANGED <<tz, runs, streaks, streak_freezes, monthlyFreezes, lastOp, longStore, w,
                 thresholds, calls, liftTables, healthSync>>

\* a call that counts as one of the MaxOps calls of a sequence, and a step
\* that does not
Counted(A) == nOps < MaxOps /\ A /\ nOps' = nOps + 1
Free(A) == A /\ UNCHANGED nOps

\* The callers that can be inside updateStreak at the same time: the screen
\* that logs a run (createRun) and the HealthKit sync (importWorkout).  A
\* call in flight is at one of its awaits (pc) and holds what it has read:
\* the run date, the row getCurrentStreak returned, the length computed, and
\* (visible) the runs that were in the table when it was computed.
Callers == {"createRun", "importWorkout"}

Idle == [pc |-> "idle", runDate |-> NULL, currentStreak |-> NULL,
         newLength |-> NULL, visible |-> {}]

\* no updateStreak call is in flight
NoCalls == [caller \in Callers |-> Idle]

\* The health sync hook (useHealthSync, HealthSyncProvider) as mounted: no
\* sync running, lastSyncTime 0, no timer.  Date.now() is counted in seconds
\* from a moment more than MIN_SYNC_INTERVAL after the epoch.
MIN_SYNC_INTERVAL == 30
SYNC_TIMEOUT == 15
HookMounted ==
  /\ clock = MIN_SYNC_INTERVAL
  /\ isSyncing = FALSE
  /\ lastSyncTime = 0
  /\ debounceTimer = NULL
  /\ syncTimeout = NULL
  /\ timers = {}
  /\ inFlight = {}
  /\ syncStarts = {}

\* ------------------------------------------- the core operations, in sequence
Init ==
  /\ now = 0
  /\ tz \in TimeZones
  /\ runs = {}
  /\ streaks = {}
  /\ streak_freezes = {}
  /\ monthlyFreezes = 2
  /\ lastOp = Op("init", <<>>, <<>>)
  /\ longStore = 0
  /\ w = walkStart(0)
  /\ nOps = 0
  /\ streakMinDistance = 0
  /\ streakMinDuration = 0
  /\ calls = NoCalls
  /\ HookMounted
  /\ workouts = {}
  /\ exercises = {}
  /\ personal_records = {}

Next ==
  \/ \E kind \in RunKinds : Counted(createRun(kind[1], kind[2], NULL))
  \/ Counted(updateStreak(localDay(now)))
  \/ \E date \in Days : Counted(useStreakFreeze(date))
  \/ Counted(endStreak)
  \/ \E runId \in {r.id : r \in runs} : Counted(deleteRun(runId))
  \/ Free(Tick)

Spec == Init /\ [][Next]_vars

\* ---------------------------------- calculateCurrentStreak on every store
\* The stores calculateCurrentStreak is applied to, on the last simulated day:
\* up to CalcRuns runs of that day and the CalcBack days before it; no streak, or one
\* streak, ended or active, or an ended and then an active one; up to
\* CalcFreezes freezes of the first streak on those days.  freezesUsed counts
\* the streak's freezes.
CalcBack == 2
CalcRuns == 2
CalcFreezes == 2
CalcDates == (MaxDay - CalcBack)..MaxDay

CalcRunRows ==
  {Run((d - MaxDay + CalcBack) * 2 + kind[1], d, kind[1], kind[2]) :
     d \in CalcDates, kind \in RunKinds}

CalcFreezeRows == {Freeze(d - MaxDay + CalcBack + 1, 1, d) : d \in CalcDates}

CalcStreakRows(F) ==
  {{},
   {Streak(1, 0, NULL, 1, TRUE, Cardinality(F))},
   {Streak(1, 0, Val(0), 1, FALSE, Cardinality(F))},
   {Streak(1, 0, Val(0), 1, FALSE, Cardinality(F)), Streak(2, 0, NULL, 1, TRUE, 0)}}

InitCalc ==
  /\ now = 2 * MaxDay
  /\ tz \in TimeZones
  /\ runs \in {R \in SUBSET CalcRunRows : Cardinality(R) <= CalcRuns}
  /\ streak_freezes \in {F \in SUBSET CalcFreezeRows : Cardinality(F) <= CalcFreezes}
  /\ streaks \in {S \in CalcStreakRows(streak_freezes) :
                    \A sf \in streak_freezes : \E s \in S : s.id = sf.streakId}
  /\ monthlyFreezes = 2
  /\ lastOp = Op("init", <<>>, <<>>)
  /\ longStore = 0
  /\ w = walkStart(0)
  /\ nOps = 0
  /\ streakMinDistance = 0
  /\ streakMinDuration = 0
  /\ calls = NoCalls
  /\ HookMounted
  /\ workouts = {}
  /\ exercises = {}
  /\ personal_records = {}

NextCalc ==
  \/ \E minDistance \in MinDistances, minDuration \in MinDurations :
       Free(callCalculateCurrentStreak(minDistance, minDuration))
  \/ \E runId \in {r.id : r \in runs} : Free(deleteRun(runId))
  \/ Free(Tick)

SpecCalc == InitCalc /\ [][NextCalc]_vars

\* ------------------------------------- the walk, iteration by iteration
\* Long histories, given by a number instead of their rows: history 1 has a
\* run on each of the LongDays days that end today; history 2 has a run on
\* every second day of the LongDays days that end today and, on the days
\* between, a freeze of the active streak.
LongDays == 3652

LongRuns(k) ==
  {Run(d + 1, 0 - d, 1, 1) :
     d \in {e \in 0..(LongDays - 1) : k = 1 \/ (k = 2 /\ e % 2 = 0)}}

LongFreezes(k) ==
  {Freeze(d + 1, 1, 0 - d) : d \in {e \in 0..(LongDays - 1) : k = 2 /\ e % 2 = 1}}

LongStreaks(k) == {Streak(1, 1 - LongDays, NULL, 1, TRUE, Cardinality(LongFreezes(k)))}

InitLoop ==
  /\ now = 1
  /\ tz \in TimeZones
  /\ runs = {}
  /\ streaks = {}
  /\ streak_freezes = {}
  /\ monthlyFreezes = 2
  /\ lastOp = Op("init", <<>>, <<>>)
  /\ longStore \in 1..2
  /\ w = walkStart(todayOf(now))
  /\ nOps = 0
  /\ streakMinDistance = 0
  /\ streakMinDuration = 0
  /\ calls = NoCalls
  /\ HookMounted
  /\ workouts = {}
  /\ exercises = {}
  /\ personal_records = {}

\* one pass through the body of the while loop
LoopStep ==
  /\ ~w.done
  /\ w' = walkStep(LongRuns(longStore), LongStreaks(longStore),
                   LongFreezes(longStore), tz, todayOf(now), 0, 0, w)
  /\ UNCHANGED <<now, tz, runs, streaks, streak_freezes, monthlyFreezes, lastOp, longStore,
                 thresholds, calls, liftTables, healthSync>>

\* return streakCount
LoopReturn ==
  /\ w.done
  /\ lastOp.op = "init"
  /\ lastOp' = Op("calculateCurrentStreak", <<0, 0, localDay(now)>>,
                  <<w.streakCount>>)
  /\ UNCHANGED <<now, tz, runs, streaks, streak_freezes, monthlyFreezes, longStore, w,
                 thresholds, calls, liftTables, healthSync>>

NextLoop == Free(LoopStep) \/ Free(LoopReturn)

SpecLoop == InitLoop /\ [][NextLoop]_vars

\* --------------------------------------------- the monthlyFreezes setting
\* RunScreen.handleUseFreeze: useStreakFreeze(today, 'Manual freeze') with
\* today = new Date().toISOString().split('T')[0]
handleUseFreeze == useStreakFreeze(toISODate(now, tz))

NextSettings ==
  \/ Free(updateStreak(localDay(now)))
  \/ Free(handleUseFreeze)
  \/ \E value \in 1..MaxQuota : Free(updateSetting(value))
  \/ Free(Tick)

SpecSettings == Init /\ [][NextSettings]_vars

\* ------------------------------------------- writes of the record store
\* the workouts HealthKit hands over, as <<distance, duration>>: those of
\* RunKinds and one too short to be imported
HealthWorkouts == RunKinds \cup {<<0, 1>>}

\* syncRunsFromHealthKit, one pass of its loop, for a running workout that
\* was not imported before: it is skipped when distance < 0.1 or the duration
\* is not positive; else the run is inserted under the local calendar day of
\* its start and updateStreak is called
importWorkout(distance, duration, startTime) ==
  LET runDate == localDay(startTime)
      newRuns == runs \cup {Run(newId(runs), runDate, distance, duration)}
  IN  IF distance < 1 \/ duration <= 0
      THEN /\ lastOp' = Op("importWorkout", <<runDate>>, <<"skipped">>)
           /\ UNCHANGED <<now, tz, runs, streaks, streak_freezes, monthlyFreezes,
                          longStore, w, thresholds, calls, liftTables, healthSync>>
      ELSE /\ Cardinality(runs) < MaxRuns
           /\ canInsertStreak(streaks)
           /\ runs' = newRuns
           /\ streaks' \in updateStreakRows(newRuns, streaks, streak_freezes,
                                            tz, now, runDate)
           /\ lastOp' = Op("importWorkout", <<runDate>>,
                           <<updateStreakBranch(streaks)>>)
           /\ UNCHANGED <<now, tz, streak_freezes, monthlyFreezes, longStore, w,
                          thresholds, calls, liftTables, healthSync>>

\* SettingsScreen.handleStreakMinChange(type, value)
handleStreakMinChange(type, value) ==
  /\ IF type = "distance"
     THEN streakMinDistance' = value /\ UNCHANGED streakMinDuration
     ELSE streakMinDuration' = value /\ UNCHANGED streakMinDistance
  /\ lastOp' = Op("updateSetting", <<type, value>>, <<>>)
  /\ UNCHANGED <<now, tz, runs, streaks, streak_freezes, monthlyFreezes,
                 longStore, w, calls, liftTables, healthSync>>

NextWrites ==
  \/ \E kind \in RunKinds : Counted(createRun(kind[1], kind[2], NULL))
  \/ \E kind \in HealthWorkouts, startTime \in 0..now :
       Counted(importWorkout(kind[1], kind[2], startTime))
  \/ \E runId \in {r.id : r \in runs} : Counted(deleteRun(runId))
  \/ \E value \in MinDistances : Free(handleStreakMinChange("distance", value))
  \/ \E value \in MinDurations : Free(handleStreakMinChange("duration", value))
  \/ Free(Tick)

SpecWrites == Init /\ [][NextWrites]_vars

\* -------------------------------------------- updateStreak, await by await
\* the runs logged by calls that may overlap
MaxCalls == 4

\* createRun or the import up to its call of updateStreak: the run is
\* inserted
startCall(caller, runDate) ==
  /\ calls[caller].pc = "idle"
  /\ Cardinality(runs) < MaxCalls
  /\ runs' = runs \cup {Run(newId(runs), runDate, 1, 2)}
  /\ calls' = [calls EXCEPT ![caller] =
                 [Idle EXCEPT !.pc = "getCurrentStreak", !.runDate = Val(runDate)]]
  /\ UNCHANGED <<now, tz, streaks, streak_freezes, monthlyFreezes, lastOp,
                 longStore, w, thresholds, liftTables, healthSync>>

\* const currentStreak = await getCurrentStreak()
awaitGetCurrentStreak(caller) ==
  /\ calls[caller].pc = "getCurrentStreak"
  /\ IF getCurrentStreak(streaks) = {}
     THEN calls' = [calls EXCEPT ![caller].pc = "insert"]
     ELSE \E currentStreak \in getCurrentStreak(streaks) :
            calls' = [calls EXCEPT ![caller].pc = "calculateCurrentStreak",
                                   ![caller].currentStreak = Val(currentStreak)]
  /\ UNCHANGED <<now, tz, runs, streaks, streak_freezes, monthlyFreezes, lastOp,
                 longStore, w, thresholds, liftTables, healthSync>>

\* const newLength = await calculateCurrentStreak()
awaitCalculateCurrentStreak(caller) ==
  /\ calls[caller].pc = "calculateCurrentStreak"
  /\ calls' = [calls EXCEPT
                 ![caller].pc = "update",
                 ![caller].newLength =
                    Val(calculateCurrentStreak(runs, streaks, streak_freezes,
                                               tz, now, 0, 0)),
                 ![caller].visible = {r.id : r \in runs}]
  /\ UNCHANGED <<now, tz, runs, streaks, streak_freezes, monthlyFreezes, lastOp,
                 longStore, w, thresholds, liftTables, healthSync>>

\* (an insert that looks for an active streak once more)
insertStreakUnlessActive(S, runDate) ==
  IF getCurrentStreak(S) = {}
  THEN S \cup {Streak(newId(S), runDate, NULL, 1, TRUE, 0)}
  ELSE S

\* INSERT INTO streaks (id, startDate, currentLength, isActive, freezesUsed)
\* VALUES (?, runDate, 1, 1, 0)
insertStreak(S, runDate) == S \cup {Streak(newId(S), runDate, NULL, 1, TRUE, 0)}

\* UPDATE streaks SET currentLength = ?, endDate = NULL WHERE id = ?
updateStreakLength(S, id, newLength) ==
  {IF s.id = id THEN [s EXCEPT !.currentLength = newLength, !.endDate = NULL]
   ELSE s : s \in S}

\* the write that ends the call: the insert or the update it decided on
awaitRunQuery(caller) ==
  LET call == calls[caller]
      runDate == CHOOSE d \in call.runDate : TRUE
  IN  /\ call.pc \in {"insert", "update"}
      /\ IF call.pc = "insert"
         THEN /\ Cardinality(streaks) < MaxStreaks
              /\ streaks' = insertStreak(streaks, runDate)
              /\ lastOp' = Op(caller, <<runDate>>, <<"insert">>)
         ELSE LET currentStreak == CHOOSE cs \in call.currentStreak : TRUE
                  newLength == CHOOSE n \in call.newLength : TRUE
              IN  /\ streaks' = updateStreakLength(streaks, currentStreak.id,
                                                   newLength)
                  /\ lastOp' = Op(caller, <<runDate>>,
                                  <<"update", currentStreak.id, newLength,
                                    call.visible>>)
      /\ calls' = [calls EXCEPT ![caller] = Idle]
      /\ UNCHANGED <<now, tz, runs, streak_freezes, monthlyFreezes, longStore, w,
                     thresholds, liftTables, healthSync>>

InitRace ==
  /\ now = 0
  /\ tz = 0
  /\ runs = {}
  /\ streaks = {}
  /\ streak_freezes = {}
  /\ monthlyFreezes = 2
  /\ lastOp = Op("init", <<>>, <<>>)
  /\ longStore = 0
  /\ w = walkStart(0)
  /\ nOps = 0
  /\ streakMinDistance = 0
  /\ streakMinDuration = 0
  /\ calls = NoCalls
  /\ HookMounted
  /\ workouts = {}
  /\ exercises = {}
  /\ personal_records = {}

NextRace ==
  \/ Free(startCall("createRun", toISODate(now, tz)))
  \/ \E startTime \in {t \in {now, now - 2} : t >= 0} :
       Free(startCall("importWorkout", localDay(startTime)))
  \/ \E caller \in Callers : Free(awaitGetCurrentStreak(caller))
  \/ \E caller \in Callers : Free(awaitCalculateCurrentStreak(caller))
  \/ \E caller \in Callers : Free(awaitRunQuery(caller))
  \/ Free(Tick)

SpecRace == InitRace /\ [][NextRace]_vars

\* ------------------------------------------------------------ numbers
\* A JavaScript number that need not be an integer is the fraction num / den
\* (den > 0) in lowest terms.
RECURSIVE GCD(_, _)
GCD(a, b) == IF b = 0 THEN a ELSE GCD(b, a % b)

Abs(a) == IF a < 0 THEN 0 - a ELSE a

Frac(num, den) ==
  LET g == GCD(Abs(num), den)
  IN  [num |-> num \div g, den |-> den \div g]

FracLess(a, b) == a.num * b.den < b.num * a.den

\* Math.round(num / den): the nearest integer, a half rounded up
MathRound(num, den) == (2 * num + den) \div (2 * den)

RECURSIVE SumSeq(_)
SumSeq(q) == IF q = <<>> THEN 0 ELSE Head(q) + SumSeq(Tail(q))

RECURSIVE MaxSeq(_)
MaxSeq(q) ==
  IF Len(q) = 1 THEN Head(q)
  ELSE IF Head(q) >= MaxSeq(Tail(q)) THEN Head(q) ELSE MaxSeq(Tail(q))

RECURSIVE Flatten(_)
Flatten(q) == IF q = <<>> THEN <<>> ELSE Head(q) \o Flatten(Tail(q))

\* q.slice(0, k)
Slice(q, k) == SubSeq(q, 1, IF Len(q) < k THEN Len(q) ELSE k)

\* --------------------------------------------------- the exercise history
\* rows: a workout, an exercise entry of a workout with its sets (in
\* setNumber order), a set
Workout(id, date) == [id |-> id, date |-> date]

Exercise(id, workoutId, exerciseLibraryId, sets) ==
  [id |-> id, workoutId |-> workoutId, exerciseLibraryId |-> exerciseLibraryId,
   sets |-> sets]

Set(weight, reps, rpe) == [weight |-> weight, reps |-> reps, rpe |-> rpe]

\* SELECT e.*, w.date FROM exercises e JOIN workouts w ON e.workoutId = w.id
\* WHERE e.exerciseLibraryId = ?
exerciseRows(W, X, exerciseLibraryId) ==
  {[entry |-> p[1], date |-> p[2].date] :
     p \in {q \in X \X W : /\ q[1].exerciseLibraryId = exerciseLibraryId
                            /\ q[1].workoutId = q[2].id}}

\* ORDER BY w.date DESC LIMIT ?
RECURSIVE orderByDateDesc(_, _)
orderByDateDesc(rows, limit) ==
  IF rows = {} \/ limit = 0 THEN <<>>
  ELSE LET first == CHOOSE r \in rows : \A o \in rows : o.date <= r.date
       IN  <<first>> \o orderByDateDesc(rows \ {first}, limit - 1)

\* the ExerciseHistory of one exercise entry
historyOf(row) ==
  LET sets == row.entry.sets
  IN  [date        |-> row.date,
       totalVolume |-> SumSeq([i \in 1..Len(sets) |-> sets[i].weight * sets[i].reps]),
       maxWeight   |-> MaxSeq([i \in 1..Len(sets) |-> sets[i].weight]),
       totalReps   |-> SumSeq([i \in 1..Len(sets) |-> sets[i].reps]),
       sets        |-> sets]

getExerciseHistory(W, X, exerciseLibraryId, limit) ==
  LET rows == orderByDateDesc(exerciseRows(W, X, exerciseLibraryId), limit)
  IN  [i \in 1..Len(rows) |-> historyOf(rows[i])]

\* ------------------------------------------------ progression recommendation
\* all sessions within 5% of the average of their max weights:
\* |w - avg| / avg < 0.05 with avg = sum / n; an avg of 0 makes the quotient
\* NaN, and the comparison false
checkConsistency(sessions) ==
  LET n == Len(sessions)
      sum == SumSeq([i \in 1..n |-> sessions[i].maxWeight])
  IN  /\ n >= 2
      /\ \A i \in 1..n : 20 * Abs(sessions[i].maxWeight * n - sum) < sum

\* (the trend taken over the three most recent sessions only)
isRegressingRecentOnly(history) ==
  LET n == IF Len(history) < 3 THEN Len(history) ELSE 3
      recent == history[1].totalVolume + history[2].totalVolume
      older == history[n - 1].totalVolume + history[n].totalVolume
  IN  n >= 3 /\ 10 * recent < 9 * older

\* calculateVolumeTrend(history) < -0.1, the trend being
\* (recentAvg - olderAvg) / olderAvg over the two newest and the two oldest
\* sessions, and 0 for fewer than 3 sessions; an olderAvg of 0 makes the
\* trend NaN or Infinity, which is not below -0.1
isRegressing(history) ==
  LET n == Len(history)
      recent == history[1].totalVolume + history[2].totalVolume
      older == history[n - 1].totalVolume + history[n].totalVolume
  IN  n >= 3 /\ 10 * recent < 9 * older

\* the average RPE of the sets that carry one, 7 when none does
avgRPE(recentSessions) ==
  LET recentSets == Flatten([i \in 1..Len(recentSessions) |-> recentSessions[i].sets])
      setsWithRPE == SelectSeq(recentSets, LAMBDA st : st.rpe # NULL)
      rpeOf(st) == CHOOSE v \in st.rpe : TRUE
  IN  IF Len(setsWithRPE) > 0
      THEN Frac(SumSeq([i \in 1..Len(setsWithRPE) |-> rpeOf(setsWithRPE[i])]),
                Len(setsWithRPE))
      ELSE Frac(7, 1)

\* (the chain of tests without its first one, for regression)
progressionActionNoRegression(regressing, consistent, rpe) ==
  IF consistent /\ FracLess(rpe, Frac(8, 1))
  THEN IF FracLess(rpe, Frac(7, 1)) THEN "add_weight" ELSE "add_reps"
  ELSE IF consistent /\ ~FracLess(rpe, Frac(8, 1)) /\ FracLess(rpe, Frac(9, 1))
  THEN "add_sets"
  ELSE "maintain"

\* the if / else if chain that determines the action
progressionAction(regressing, consistent, rpe) ==
  IF regressing
  THEN IF FracLess(Frac(17, 2), rpe) THEN "deload" ELSE "maintain"
  ELSE IF consistent /\ FracLess(rpe, Frac(8, 1))
  THEN IF FracLess(rpe, Frac(7, 1)) THEN "add_weight" ELSE "add_reps"
  ELSE IF consistent /\ ~FracLess(rpe, Frac(8, 1)) /\ FracLess(rpe, Frac(9, 1))
  THEN "add_sets"
  ELSE IF ~FracLess(rpe, Frac(9, 1)) THEN "maintain"
  ELSE "maintain"

\* (the suggested weight rounded to a whole number)
suggestedAddWeightWhole(sum, n, isCompound) ==
  Frac(MathRound(2 * sum + (IF isCompound THEN 10 ELSE 5) * n, 2 * n), 1)

\* Math.round((avgMaxWeight + increment) * 2) / 2 with avgMaxWeight = sum / n
\* and increment 5 (compound) or 2.5
suggestedAddWeight(sum, n, isCompound) ==
  Frac(MathRound(2 * sum + (IF isCompound THEN 10 ELSE 5) * n, n), 2)

\* the recommendation computed from a history: its action and the suggested
\* values (NULL where the code leaves them undefined)
recommend(history, isCompound) ==
  IF Len(history) < 2
  THEN [action |-> "maintain", suggestedWeight |-> NULL, suggestedReps |-> NULL,
        suggestedSets |-> NULL]
  ELSE
    LET recentSessions == Slice(history, 3)
        n == Len(recentSessions)
        sumMaxWeight == SumSeq([i \in 1..n |-> recentSessions[i].maxWeight])
        sumReps == SumSeq([i \in 1..n |-> recentSessions[i].totalReps])
        action == progressionAction(isRegressing(history),
                                    checkConsistency(recentSessions),
                                    avgRPE(recentSessions))
    IN  [action |-> action,
         suggestedWeight |->
           IF action = "deload"
           THEN Val(Frac(MathRound(6 * sumMaxWeight, 10 * n), 1))
           ELSE IF action = "add_weight"
           THEN Val(suggestedAddWeight(sumMaxWeight, n, isCompound))
           ELSE NULL,
         suggestedReps |->
           IF action = "add_reps" THEN Val(MathRound(sumReps, n * n) + 1) ELSE NULL,
         suggestedSets |-> IF action = "add_sets" THEN Val(1) ELSE NULL]

\* calculateProgressionRecommendation(exerciseLibraryId, name, isCompound)
calculateProgressionRecommendation(exerciseLibraryId, isCompound) ==
  /\ lastOp' = Op("calculateProgressionRecommendation",
                  <<exerciseLibraryId, isCompound>>,
                  <<recommend(getExerciseHistory(workouts, exercises,
                                                 exerciseLibraryId, 5),
                              isCompound)>>)
  /\ UNCHANGED <<now, tz, runs, streaks, streak_freezes, monthlyFreezes,
                 longStore, w, thresholds, calls, liftTables, healthSync>>

\* The histories the recommendation is computed on: up to MaxSessions
\* sessions of one exercise on consecutive days, each of one set; the
\* 4-rep sets are logged at weight 135 only.
MaxSessions == 3
SetWeights == {135, 137, 150}
SetReps == {4, 5}
SetRPEs == {NULL, Val(6), Val(8), Val(9)}
SessionSets == {s \in {Set(weight, reps, rpe) :
                         weight \in SetWeights, reps \in SetReps, rpe \in SetRPEs} :
                  s.reps = 4 => s.weight = 135}

InitProgress ==
  /\ now = 0
  /\ tz = 0
  /\ runs = {}
  /\ streaks = {}
  /\ streak_freezes = {}
  /\ monthlyFreezes = 2
  /\ lastOp = Op("init", <<>>, <<>>)
  /\ longStore = 0
  /\ w = walkStart(0)
  /\ nOps = 0
  /\ streakMinDistance = 0
  /\ streakMinDuration = 0
  /\ calls = NoCalls
  /\ HookMounted
  /\ \E n \in 0..MaxSessions : \E sessions \in [1..n -> SessionSets] :
       /\ workouts = {Workout(i, i) : i \in 1..n}
       /\ exercises = {Exercise(i, i, "bench", <<sessions[i]>>) : i \in 1..n}
  /\ personal_records = {}

NextProgress ==
  \E isCompound \in BOOLEAN :
    Free(calculateProgressionRecommendation("bench", isCompound))

SpecProgress == InitProgress /\ [][NextProgress]_vars

\* ----------------------------------------------------- personal records
PersonalRecord(id, exerciseLibraryId, recordType, value, weight, reps, date, workoutId) ==
  [id |-> id, exerciseLibraryId |-> exerciseLibraryId, recordType |-> recordType,
   value |-> value, weight |-> weight, reps |-> reps, date |-> date,
   workoutId |-> workoutId]

\* the number Infinity: greater than every fraction under FracLess
Infinity == [num |-> 1, den |-> 0]

\* reps === 1 ? weight : weight * (36 / (37 - reps)), for a positive weight:
\* at 37 reps 36 / 0 is Infinity, above 37 the quotient is negative
estimated1RM(weight, reps) ==
  IF reps = 1 THEN Frac(weight, 1)
  ELSE IF reps < 37 THEN Frac(weight * 36, 37 - reps)
  ELSE IF reps = 37 THEN Infinity
  ELSE Frac(0 - weight * 36, reps - 37)

\* templateService.calculateEstimated1RM(weight, reps)
calculateEstimated1RM(weight, reps) ==
  IF reps = 1 THEN Frac(weight, 1)
  ELSE IF reps > 12 THEN Frac(weight * (30 + reps), 30)
  ELSE Frac(weight * 36, 37 - reps)

\* SELECT * FROM personal_records WHERE exerciseLibraryId = ? AND
\* recordType = ? ORDER BY value DESC LIMIT 1: the rows it may return
currentBest(P, exerciseLibraryId, recordType) ==
  LET rows == {r \in P : /\ r.exerciseLibraryId = exerciseLibraryId
                         /\ r.recordType = recordType}
  IN  {r \in rows : \A o \in rows : ~FracLess(r.value, o.value)}

\* (the test that lets a tie pass as well)
beatsOrTies(P, exerciseLibraryId, recordType, candidate) ==
  \A current \in currentBest(P, exerciseLibraryId, recordType) :
    ~FracLess(candidate, current.value)

\* !current || candidate > current.value
beats(P, exerciseLibraryId, recordType, candidate) ==
  \A current \in currentBest(P, exerciseLibraryId, recordType) :
    FracLess(current.value, candidate)

\* one of the read-compare-insert blocks of checkAndUpdatePR
checkRecord(P, exerciseLibraryId, recordType, candidate, weight, reps, date, workoutId) ==
  IF beats(P, exerciseLibraryId, recordType, candidate)
  THEN P \cup {PersonalRecord(newId(P), exerciseLibraryId, recordType, candidate,
                              weight, reps, date, workoutId)}
  ELSE P

repPRTypes == <<[reps |-> 3, type |-> "3rm"], [reps |-> 5, type |-> "5rm"],
                [reps |-> 10, type |-> "10rm"]>>

\* (the loop taking a set for the rep records of exactly its reps)
RECURSIVE checkRepRecordsExact(_, _, _, _, _, _, _)
checkRepRecordsExact(P, k, exerciseLibraryId, weight, reps, date, workoutId) ==
  IF k > Len(repPRTypes) THEN P
  ELSE checkRepRecordsExact(
         IF reps = repPRTypes[k].reps
         THEN checkRecord(P, exerciseLibraryId, repPRTypes[k].type,
                          Frac(weight, 1), weight, reps, date, workoutId)
         ELSE P,
         k + 1, exerciseLibraryId, weight, reps, date, workoutId)

\* the for loop over repPRTypes, from its k-th entry on
RECURSIVE checkRepRecords(_, _, _, _, _, _, _)
checkRepRecords(P, k, exerciseLibraryId, weight, reps, date, workoutId) ==
  IF k > Len(repPRTypes) THEN P
  ELSE checkRepRecords(
         IF reps >= repPRTypes[k].reps
         THEN checkRecord(P, exerciseLibraryId, repPRTypes[k].type,
                          Frac(weight, 1), weight, reps, date, workoutId)
         ELSE P,
         k + 1, exerciseLibraryId, weight, reps, date, workoutId)

\* checkAndUpdatePR(exerciseLibraryId, weight, reps, date, workoutId, setId):
\* the table it leaves
checkAndUpdatePR(P, exerciseLibraryId, weight, reps, date, workoutId) ==
  LET afterMaxWeight == checkRecord(P, exerciseLibraryId, "max_weight",
                                    Frac(weight, 1), weight, reps, date, workoutId)
      after1RM == checkRecord(afterMaxWeight, exerciseLibraryId, "1rm",
                              estimated1RM(weight, reps), weight, reps, date,
                              workoutId)
  IN  checkRepRecords(after1RM, 1, exerciseLibraryId, weight, reps, date, workoutId)

\* the loop of createWorkout over the sets of an exercise, from the k-th on
RECURSIVE checkSets(_, _, _, _, _, _)
checkSets(P, k, exerciseLibraryId, sets, date, workoutId) ==
  IF k > Len(sets) THEN P
  ELSE checkSets(checkAndUpdatePR(P, exerciseLibraryId, sets[k].weight,
                                  sets[k].reps, date, workoutId),
                 k + 1, exerciseLibraryId, sets, date, workoutId)

\* uuidv4() for a workout: an id no row refers to
newWorkoutId ==
  LET used == {wk.id : wk \in workouts} \cup {x.workoutId : x \in exercises}
                \cup UNION {r.workoutId : r \in personal_records}
  IN  CHOOSE i \in 1..(Cardinality(used) + 1) : i \notin used

\* createWorkout(exercises, ...) with one exercise entry and its sets
createWorkout(exerciseLibraryId, sets) ==
  LET workoutId == newWorkoutId
      date == toISODate(now, tz)
  IN  /\ workouts' = workouts \cup {Workout(workoutId, date)}
      /\ exercises' = exercises \cup
           {Exercise(newId(exercises), workoutId, exerciseLibraryId, sets)}
      /\ personal_records' = checkSets(personal_records, 1, exerciseLibraryId,
                                       sets, date, Val(workoutId))
      /\ lastOp' = Op("createWorkout", <<exerciseLibraryId, sets, workoutId>>, <<>>)
      /\ UNCHANGED <<now, tz, runs, streaks, streak_freezes, monthlyFreezes,
                     longStore, w, thresholds, calls, healthSync>>

\* (the reference as ON DELETE CASCADE would treat it)
onDeleteCascade(P, workoutId) == {r \in P : r.workoutId # Val(workoutId)}

\* FOREIGN KEY (workoutId) REFERENCES workouts(id) ON DELETE SET NULL
onDeleteSetNull(P, workoutId) ==
  {IF r.workoutId = Val(workoutId) THEN [r EXCEPT !.workoutId = NULL] ELSE r :
     r \in P}

\* deleteWorkout(workoutId): DELETE FROM workouts WHERE id = ?.  The schema's
\* foreign keys act when the connection enforces them (foreignKeys), which
\* the code leaves to the build of SQLite: then the workout's exercises and
\* sets go with it and its records lose their workoutId.
deleteWorkout(workoutId, foreignKeys) ==
  /\ workouts' = {wk \in workouts : wk.id # workoutId}
  /\ exercises' = IF foreignKeys
                  THEN {x \in exercises : x.workoutId # workoutId}
                  ELSE exercises
  /\ personal_records' = IF foreignKeys
                         THEN onDeleteSetNull(personal_records, workoutId)
                         ELSE personal_records
  /\ lastOp' = Op("deleteWorkout", <<workoutId>>, <<>>)
  /\ UNCHANGED <<now, tz, runs, streaks, streak_freezes, monthlyFreezes,
                 longStore, w, thresholds, calls, healthSync>>

\* The workouts logged, as <<exerciseLibraryId, sets>>: a bench workout of
\* one set, or of two sets of the same reps and different weights, and a
\* squat workout of one set at the lower weight.  Up to MaxWorkouts of them
\* are logged, on one day.
MaxWorkouts == 2
LoggedWeights == {100, 105}
LoggedReps == {1, 5, 10}
LoggedSets == {Set(weight, reps, NULL) : weight \in LoggedWeights, reps \in LoggedReps}
LoggedWorkouts ==
  {<<"bench", <<a>>>> : a \in LoggedSets}
    \cup {<<"bench", <<p[1], p[2]>>>> :
            p \in {q \in LoggedSets \X LoggedSets :
                     q[1].reps = q[2].reps /\ q[1].weight # q[2].weight}}
    \cup {<<"squat", <<a>>>> : a \in {b \in LoggedSets : b.weight = 100}}

InitPR ==
  /\ now = 0
  /\ tz = 0
  /\ runs = {}
  /\ streaks = {}
  /\ streak_freezes = {}
  /\ monthlyFreezes = 2
  /\ lastOp = Op("init", <<>>, <<>>)
  /\ longStore = 0
  /\ w = walkStart(0)
  /\ nOps = 0
  /\ streakMinDistance = 0
  /\ streakMinDuration = 0
  /\ calls = NoCalls
  /\ HookMounted
  /\ workouts = {}
  /\ exercises = {}
  /\ personal_records = {}

NextPR ==
  \/ \E logged \in LoggedWorkouts :
       /\ nOps < MaxWorkouts
       /\ createWorkout(logged[1], logged[2])
       /\ nOps' = nOps + 1
  \/ \E workoutId \in {wk.id : wk \in workouts}, foreignKeys \in BOOLEAN :
       Free(deleteWorkout(workoutId, foreignKeys))

SpecPR == InitPR /\ [][NextPR]_vars

\* --------------------------------------------------- the estimated 1RM
\* a caller computes the estimate for a set
callCalculateEstimated1RM(weight, reps) ==
  /\ lastOp' = Op("calculateEstimated1RM", <<weight, reps>>,
                  <<calculateEstimated1RM(weight, reps)>>)
  /\ UNCHANGED <<now, tz, runs, streaks, streak_freezes, monthlyFreezes,
                 longStore, w, thresholds, calls, liftTables, healthSync>>

\* the sets the estimate is computed for and stored for: every number of
\* reps for which 37 - reps is positive
EstimateWeights == {100, 225}
EstimateReps == 1..36

NextEstimate ==
  \/ \E weight \in EstimateWeights, reps \in EstimateReps :
       Free(callCalculateEstimated1RM(weight, reps))
  \/ \E weight \in EstimateWeights, reps \in EstimateReps :
       /\ nOps < 1
       /\ createWorkout("bench", <<Set(weight, reps, NULL)>>)
       /\ nOps' = nOps + 1

SpecEstimate == InitPR /\ [][NextEstimate]_vars

\* ------------------------------------------- the fetched window of five
\* Histories that reach past the three sessions the averages look at and past
\* the five sessions fetched: up to MaxLogged sessions of one exercise on
\* consecutive days, each of one 5-rep set, among them bodyweight sets
\* (weight 0).
MaxLogged == 6
TrendSets == {Set(0, 5, NULL), Set(100, 5, NULL), Set(104, 5, NULL),
              Set(120, 5, Val(9))}

InitTrend ==
  /\ now = 0
  /\ tz = 0
  /\ runs = {}
  /\ streaks = {}
  /\ streak_freezes = {}
  /\ monthlyFreezes = 2
  /\ lastOp = Op("init", <<>>, <<>>)
  /\ longStore = 0
  /\ w = walkStart(0)
  /\ nOps = 0
  /\ streakMinDistance = 0
  /\ streakMinDuration = 0
  /\ calls = NoCalls
  /\ HookMounted
  /\ \E n \in 0..MaxLogged : \E sessions \in [1..n -> TrendSets] :
       /\ workouts = {Workout(i, i) : i \in 1..n}
       /\ exercises = {Exercise(i, i, "bench", <<sessions[i]>>) : i \in 1..n}
  /\ personal_records = {}

SpecTrend == InitTrend /\ [][NextProgress]_vars

\* ----------------------------------------------------- storage failure
\* useStreakFreeze(date) when the storage fails at one of its two writes
\* (failedWrite = 1: the INSERT, 2: the UPDATE): runQuery rejects, the
\* rejection propagates to the caller, and what was written before stays,
\* no transaction enclosing the two writes
useStreakFreezeFailing(date, failedWrite) ==
  \E currentStreak \in getCurrentStreak(streaks) :
    /\ ~quotaReached(freezesThisMonth(streak_freezes, currentStreak.id, tz, now),
                     monthlyFreezes)
    /\ Cardinality(streak_freezes) < MaxFreezes
    /\ streak_freezes' =
         IF failedWrite = 1 THEN streak_freezes
         ELSE streak_freezes \cup
                {Freeze(newId(streak_freezes), currentStreak.id, date)}
    /\ lastOp' = Op("useStreakFreeze", <<failedWrite>>, <<"error">>)
    /\ UNCHANGED <<now, tz, runs, streaks, monthlyFreezes, longStore, w,
                   thresholds, calls, liftTables, healthSync>>

NextFailing ==
  \/ \E kind \in RunKinds : Counted(createRun(kind[1], kind[2], NULL))
  \/ \E date \in Days : Counted(useStreakFreeze(date))
  \/ \E date \in Days, failedWrite \in {1, 2} :
       Counted(useStreakFreezeFailing(date, failedWrite))
  \/ Free(Tick)

SpecFailing == Init /\ [][NextFailing]_vars

\* ------------------------------------------ the sets of one workout
\* One workout of one exercise with up to MaxSetsLogged sets, each set one
\* checkAndUpdatePR call, over three weights and the reps on both sides of
\* the 3, 5 and 10 rep records.
MaxSetsLogged == 3
OrderedWeights == {100, 105, 110}
OrderedReps == {1, 3, 5, 10}
OrderedSets == {Set(weight, reps, NULL) :
                  weight \in OrderedWeights, reps \in OrderedReps}

NextOrdered ==
  \E n \in 1..MaxSetsLogged : \E sets \in [1..n -> OrderedSets] :
    /\ nOps < 1
    /\ createWorkout("bench", sets)
    /\ nOps' = nOps + 1

SpecOrdered == InitPR /\ [][NextOrdered]_vars

\* ------------------------------------------------------ extreme reps
\* Sets logged with reps for which the 1RM formula leaves its range: none
\* at all, and 37 or more.  Up to 2 workouts of one such set are logged.
ExtremeWeights == {100, 225}
ExtremeReps == {0, 1, 5, 36, 37, 38}

NextExtreme ==
  \E weight \in ExtremeWeights, reps \in ExtremeReps :
    /\ nOps < 2
    /\ createWorkout("bench", <<Set(weight, reps, NULL)>>)
    /\ nOps' = nOps + 1

SpecExtreme == InitPR /\ [][NextExtreme]_vars

\* ------------------------------------------------------ the health sync
\* the seconds simulated
MaxClock == 95

\* performSync(), health sync being enabled and HealthKit available: it
\* returns at once while isSyncing is set or less than MIN_SYNC_INTERVAL
\* after the last start; else it sets the flag, notes the time, arms the
\* safety timer and calls syncRecentFromHealthKit, which it awaits.  A sync
\* in flight and its safety timer are named by the second of the start.
performSync ==
  IF isSyncing \/ clock - lastSyncTime < MIN_SYNC_INTERVAL
  THEN UNCHANGED <<isSyncing, lastSyncTime, syncTimeout, timers, inFlight, syncStarts>>
  ELSE /\ isSyncing' = TRUE
       /\ lastSyncTime' = clock
       /\ syncTimeout' = Val(clock)
       /\ timers' = timers \cup {[id |-> clock, at |-> clock + SYNC_TIMEOUT]}
       /\ inFlight' = inFlight \cup {clock}
       /\ syncStarts' = syncStarts \cup {clock}

\* the app returns to the foreground: handleAppStateChange('active')
handleAppStateChange ==
  /\ performSync
  /\ UNCHANGED <<clock, debounceTimer>>

\* a screen calls triggerSync
triggerSync ==
  /\ performSync
  /\ UNCHANGED <<clock, debounceTimer>>

\* a HealthKit change notification: debouncedSync() clears the pending
\* debounce timer and sets one of 1000 ms
debouncedSync ==
  /\ debounceTimer' = Val(clock + 1)
  /\ UNCHANGED <<clock, isSyncing, lastSyncTime, syncTimeout, timers, inFlight,
                 syncStarts>>

\* the debounce timer fires
debounceTimerFires ==
  /\ debounceTimer = Val(clock)
  /\ debounceTimer' = NULL
  /\ performSync
  /\ UNCHANGED clock

\* a safety timer fires: if (isSyncing.current) isSyncing.current = false
syncTimeoutFires ==
  \E timer \in timers :
    /\ timer.at = clock
    /\ timers' = timers \ {timer}
    /\ isSyncing' = FALSE
    /\ UNCHANGED <<clock, lastSyncTime, debounceTimer, syncTimeout, inFlight,
                   syncStarts>>

\* syncRecentFromHealthKit settles (resolved or rejected) and the finally
\* block runs: the flag is cleared, and the timer syncTimeout.current names
\* is cleared
syncSettles ==
  \E id \in inFlight :
    /\ inFlight' = inFlight \ {id}
    /\ isSyncing' = FALSE
    /\ timers' = {timer \in timers : Val(timer.id) # syncTimeout}
    /\ syncTimeout' = NULL
    /\ UNCHANGED <<clock, lastSyncTime, debounceTimer, syncStarts>>

\* a second passes; a timer that is due fires before the next second does
secondPasses ==
  /\ clock < MaxClock
  /\ debounceTimer # Val(clock)
  /\ \A timer \in timers : timer.at # clock
  /\ clock' = clock + 1
  /\ UNCHANGED <<isSyncing, lastSyncTime, debounceTimer, syncTimeout, timers,
                 inFlight, syncStarts>>

\* a step of the hook, which touches neither the tables nor the settings
Hook(A) ==
  /\ A
  /\ UNCHANGED <<now, tz, runs, streaks, streak_freezes, monthlyFreezes, lastOp,
                 longStore, w, nOps, thresholds, calls, liftTables>>

NextSync ==
  \/ Hook(handleAppStateChange)
  \/ Hook(triggerSync)
  \/ Hook(debouncedSync)
  \/ Hook(debounceTimerFires)
  \/ Hook(syncTimeoutFires)
  \/ Hook(syncSettles)
  \/ Hook(secondPasses)

SpecSync == InitPR /\ [][NextSync]_vars

\* ================================================================= claims
\* what the claims say of a day D, read off the tables
HasQualifyingRun(D, minDistance, minDuration) ==
  \E r \in runs : r.date = D /\ r.distance >= minDistance /\ r.duration >= minDuration

HasActiveFreeze(D) ==
  \E sf \in streak_freezes : \E s \in streaks :
     sf.date = D /\ sf.streakId = s.id /\ s.isActive

\* D is reached by a backward walk from day start: every day after D up to
\* start is start itself or has a qualifying run or an active-streak freeze
WalkReaches(start, D, minDistance, minDuration) ==
  /\ D <= start
  /\ \A E \in (D + 1)..start :
       E = start \/ HasQualifyingRun(E, minDistance, minDuration) \/ HasActiveFreeze(E)

\* the days a walk can look at: two further than any row of the stores
DateRange == (0 - CalcBack - 3)..(MaxDay + 2)

QualifyingDaysWalked(start, minDistance, minDuration) ==
  {D \in DateRange : /\ WalkReaches(start, D, minDistance, minDuration)
                     /\ HasQualifyingRun(D, minDistance, minDuration)}

\* C1: for every store and thresholds pair, calculateCurrentStreak returns
\* the number of days with a qualifying run among the days the backward walk
\* from today (the local calendar day) visits.
C1_CountsWalkFromToday ==
  \A minDistance \in MinDistances, minDuration \in MinDurations :
    calculateCurrentStreak(runs, streaks, streak_freezes, tz, now,
                           minDistance, minDuration)
      = Cardinality(QualifyingDaysWalked(localDay(now), minDistance, minDuration))

\* C2, as claimed: a day D counts toward the streak (increments the count) iff
\* D has a qualifying run or an active-streak freeze.
C2_CountsIffRunOrFreeze ==
  \A minDistance \in MinDistances, minDuration \in MinDurations :
    \A D \in DateRange :
      D \in walk(runs, streaks, streak_freezes, tz, now,
                 minDistance, minDuration).counted
        <=> (HasQualifyingRun(D, minDistance, minDuration) \/ HasActiveFreeze(D))

\* the day the walk looks up first: the UTC day of local midnight, which is
\* the local day, and east of UTC the day before it
FirstDayLookedUp == IF tz > 0 THEN localDay(now) - 1 ELSE localDay(now)

\* C2, amended: a day D increments the count iff D has a qualifying run and
\* the walk reaches D from the day it looks up first; a freeze on D lets the
\* walk pass and never makes D count; the result is the number of such days.
C2_CountsIffRunOnWalk ==
  \A minDistance \in MinDistances, minDuration \in MinDurations :
    LET trace == walk(runs, streaks, streak_freezes, tz, now, minDistance, minDuration)
    IN  /\ trace.counted = QualifyingDaysWalked(FirstDayLookedUp, minDistance, minDuration)
        /\ trace.streakCount = Cardinality(trace.counted)

\* C2 witness: a walk was made that passed a day holding only a freeze and
\* counted a run on an earlier day.
C2_Witness ==
  /\ lastOp.op = "calculateCurrentStreak"
  /\ lastOp.ret[1] >= 1
  /\ \E D \in DateRange :
       /\ HasActiveFreeze(D) /\ ~HasQualifyingRun(D, 0, 0)
       /\ D \in walk(runs, streaks, streak_freezes, tz, now, 0, 0).visited
       /\ \E E \in DateRange :
            E < D /\ E \in walk(runs, streaks, streak_freezes, tz, now, 0, 0).counted

\* C4: a call of calculateCurrentStreak changes no row, and a call that
\* repeats the call before it (same thresholds, same local day, no write in
\* between) returns the same integer.
C4_Idempotent ==
  [][(lastOp'.op = "calculateCurrentStreak" /\ now' = now)
       => /\ tables' = tables
          /\ lastOp'.again => lastOp'.ret = lastOp.ret]_vars

\* C4 witness: the call was repeated later on the same day, east or west of
\* UTC, and returned a streak.
C4_Witness ==
  /\ lastOp.op = "calculateCurrentStreak"
  /\ lastOp.again
  /\ lastOp.ret[1] >= 1
  /\ now % 2 = 1
  /\ tz # 0

\* C3: the backward walk makes at most 3650 iterations on every store.
C3_AtMost3650Iterations == w.iterations <= 3650

\* C5: after any sequence of core operations at most one streak is active.
C5_AtMostOneActive == Cardinality({s \in streaks : s.isActive}) <= 1

\* C5 witness: a streak was ended and another one started after it.
C5_Witness ==
  /\ lastOp.op \in {"createRun", "updateStreak"}
  /\ \E s \in streaks : s.isActive
  /\ \E s \in streaks : ~s.isActive

\* a step in which updateStreak ran: on its own or at the end of createRun
UpdateStreakCalled ==
  now' = now /\ lastOp'.op \in {"createRun", "updateStreak"}

NoActiveStreak == \A s \in streaks : ~s.isActive

\* C6: updateStreak(runDate) with no active streak inserts exactly one row
\* with startDate = runDate, currentLength = 1, isActive, freezesUsed = 0 and
\* changes no other row.
C6_StartsNewStreak ==
  [][(UpdateStreakCalled /\ NoActiveStreak)
       => \E row \in streaks' :
            /\ \A s \in streaks : s.id # row.id
            /\ streaks' = streaks \cup {row}
            /\ row.startDate = lastOp'.arg[1]
            /\ row.currentLength = 1
            /\ row.isActive
            /\ row.freezesUsed = 0]_vars

\* C6 witness: updateStreak inserted a streak next to an ended one.
C6_Witness ==
  /\ lastOp.op \in {"createRun", "updateStreak"}
  /\ lastOp.ret = <<"insert">>
  /\ \E s \in streaks : ~s.isActive
  /\ \E s \in streaks : s.isActive /\ s.currentLength = 1 /\ s.startDate = lastOp.arg[1]

\* C7: updateStreak with an active streak inserts no row, sets that streak's
\* currentLength to what calculateCurrentStreak returns on the store at that
\* moment, clears its endDate and changes nothing else.
C7_RecomputesLength ==
  [][(UpdateStreakCalled /\ ~NoActiveStreak)
       => \E cs \in streaks :
            /\ cs.isActive
            /\ streaks' = (streaks \ {cs}) \cup
                 {[cs EXCEPT !.currentLength =
                      calculateCurrentStreak(runs', streaks, streak_freezes,
                                             tz, now, 0, 0),
                    !.endDate = NULL]}]_vars

\* C7 witness: a run was logged on a later day of a streak and the streak's
\* length recomputed to 2 or more, with an ended streak on file.
C7_Witness ==
  /\ lastOp.op = "createRun"
  /\ lastOp.ret = <<"update">>
  /\ \E s \in streaks : s.isActive /\ s.currentLength >= 2
  /\ \E s \in streaks : ~s.isActive

\* the freeze rows of streak s dated in the current (local) calendar month
FreezesInCurrentMonth(s) ==
  {sf \in streak_freezes :
     sf.streakId = s.id /\ monthOf(sf.date) = monthOf(localDay(now))}

UseStreakFreezeCalled == now' = now /\ lastOp'.op = "useStreakFreeze"

\* C8: useStreakFreeze returns false, inserts no freeze and changes no streak
\* when no streak is active or the active one has 2 or more freezes dated in
\* the current calendar month.
C8_RefusesFreeze ==
  [][(/\ UseStreakFreezeCalled
      /\ \/ NoActiveStreak
         \/ \E s \in streaks : s.isActive /\ Cardinality(FreezesInCurrentMonth(s)) >= 2)
       => /\ lastOp'.ret = <<FALSE>>
          /\ streak_freezes' = streak_freezes
          /\ streaks' = streaks]_vars

\* C8 witness: a third call in the month, after two that succeeded, was refused.
C8_Witness ==
  /\ lastOp.op = "useStreakFreeze"
  /\ lastOp.ret = <<FALSE>>
  /\ \E s \in streaks :
       s.isActive /\ s.freezesUsed = 2 /\ Cardinality(FreezesInCurrentMonth(s)) = 2

\* C9: with an active streak, useStreakFreeze succeeds iff that streak has
\* fewer freezes in the current calendar month than the monthlyFreezes setting.
C9_QuotaIsSetting ==
  [][(UseStreakFreezeCalled /\ ~NoActiveStreak)
       => (lastOp'.ret = <<TRUE>>
             <=> \E s \in streaks :
                   s.isActive /\ Cardinality(FreezesInCurrentMonth(s)) < monthlyFreezes)]_vars

FreezesUsedIsRowCount ==
  \A s \in streaks :
    s.freezesUsed = Cardinality({sf \in streak_freezes : sf.streakId = s.id})

\* C10: a successful useStreakFreeze inserts exactly one freeze row, of the
\* active streak, and increments that streak's freezesUsed by one; so every
\* streak's freezesUsed is the number of freeze rows with its id.
C10_FreezesUsedCounts ==
  /\ []FreezesUsedIsRowCount
  /\ [][(UseStreakFreezeCalled /\ lastOp'.ret = <<TRUE>>)
          => \E cs \in streaks : \E row \in streak_freezes' :
               /\ cs.isActive
               /\ \A sf \in streak_freezes : sf.id # row.id
               /\ row.streakId = cs.id
               /\ streak_freezes' = streak_freezes \cup {row}
               /\ streaks' = (streaks \ {cs}) \cup
                    {[cs EXCEPT !.freezesUsed = cs.freezesUsed + 1]}]_vars

\* C10 witness: two freezes were used on a streak, the last call succeeding.
C10_Witness ==
  /\ lastOp.op = "useStreakFreeze"
  /\ lastOp.ret = <<TRUE>>
  /\ \E s \in streaks :
       s.freezesUsed = 2 /\ Cardinality({sf \in streak_freezes : sf.streakId = s.id}) = 2
MissedDay(cs, D, runDate) ==
  /\ HasQualifyingRun(cs.startDate, 0, 0)
  /\ cs.startDate < D /\ D < runDate
  /\ ~HasQualifyingRun(D, 0, 0)
  /\ ~HasActiveFreeze(D)

\* C12: once a past day inside the active streak has neither a qualifying run
\* nor a freeze, the updateStreak triggered by the next new run leaves that
\* streak with isActive = false and endDate set, and the new run belongs to a
\* newly created streak.
C12_MissedDayEndsStreak ==
  [][(now' = now /\ lastOp'.op = "createRun")
       => \A cs \in streaks :
            (cs.isActive /\ \E D \in Days : MissedDay(cs, D, lastOp'.arg[1]))
              => /\ \E s \in streaks' :
                      s.id = cs.id /\ ~s.isActive /\ s.endDate # NULL
                 /\ \E s \in streaks' :
                      /\ \A o \in streaks : o.id # s.id
                      /\ s.isActive /\ s.startDate = lastOp'.arg[1]]_vars
\* a step in which a run was persisted by createRun or by the HealthKit import
RunPersisted ==
  now' = now /\ lastOp'.op \in {"createRun", "importWorkout"} /\ runs' # runs

\* C13: createRun and the HealthKit import invoke updateStreak only when the
\* persisted run satisfies distance >= streakMinDistance and duration >=
\* streakMinDuration, so a run below the configured thresholds leaves the
\* streaks table unchanged.
C13_OnlyQualifyingRunUpdates ==
  [][RunPersisted
       => \A r \in runs' \ runs :
            ~(r.distance >= streakMinDistance /\ r.duration >= streakMinDuration)
              => streaks' = streaks]_vars
\* the history the last recommendation was computed on, its three newest
\* sessions, and what was returned
BenchHistory == getExerciseHistory(workouts, exercises, "bench", 5)
BenchRecent == Slice(BenchHistory, 3)
Recommended == lastOp.op = "calculateProgressionRecommendation"
Recommendation == lastOp.ret[1]

\* the decision table: its rows, top to bottom, as <<condition, action>>, for
\* an average RPE of r.num / r.den
DecisionTable(regressing, consistent, r) ==
  << <<regressing /\ 2 * r.num > 17 * r.den, "deload">>,
     <<regressing /\ 2 * r.num <= 17 * r.den, "maintain">>,
     <<consistent /\ r.num < 7 * r.den, "add_weight">>,
     <<consistent /\ 7 * r.den <= r.num /\ r.num < 8 * r.den, "add_reps">>,
     <<consistent /\ 8 * r.den <= r.num /\ r.num < 9 * r.den, "add_sets">>,
     <<r.num >= 9 * r.den, "maintain">>,
     <<TRUE, "maintain">> >>

FirstMatch(table) ==
  table[CHOOSE i \in 1..Len(table) :
          table[i][1] /\ \A j \in 1..(i - 1) : ~table[j][1]][2]

\* C14: calculateProgressionRecommendation returns maintain for fewer than 2
\* sessions, and otherwise the action of the first matching row of the
\* decision table over (regressing, consistent, avgRPE); a regressing history
\* never yields add_weight, add_reps or add_sets.
C14_DecisionTable ==
  Recommended =>
    /\ Len(BenchHistory) < 2 => Recommendation.action = "maintain"
    /\ Len(BenchHistory) >= 2 =>
         Recommendation.action =
           FirstMatch(DecisionTable(isRegressing(BenchHistory),
                                    checkConsistency(BenchRecent),
                                    avgRPE(BenchRecent)))
    /\ (Len(BenchHistory) >= 2 /\ isRegressing(BenchHistory)) =>
         Recommendation.action \in {"deload", "maintain"}

\* C14 witness: a history that is regressing, consistent and easy (average
\* RPE below 7) got maintain.
C14_Witness ==
  /\ Recommended
  /\ isRegressing(BenchHistory)
  /\ checkConsistency(BenchRecent)
  /\ FracLess(avgRPE(BenchRecent), Frac(7, 1))
  /\ Recommendation.action = "maintain"

\* Scenario C: a compound exercise whose three newest sessions have max
\* weights 135, 135 and 137, every set at RPE 6, volume not regressing
ScenarioC ==
  /\ Recommended
  /\ lastOp.arg[2]
  /\ Len(BenchRecent) = 3
  /\ \E p \in {<<1, 2, 3>>, <<1, 3, 2>>, <<2, 3, 1>>} :
       /\ BenchRecent[p[1]].maxWeight = 135
       /\ BenchRecent[p[2]].maxWeight = 135
       /\ BenchRecent[p[3]].maxWeight = 137
  /\ \A i \in 1..3 : \A k \in 1..Len(BenchRecent[i].sets) :
       BenchRecent[i].sets[k].rpe = Val(6)
  /\ ~isRegressing(BenchHistory)

RecordTypes == {"max_weight", "1rm", "3rm", "5rm", "10rm"}
RepsNeeded(T) == IF T = "3rm" THEN 3 ELSE IF T = "5rm" THEN 5
                 ELSE IF T = "10rm" THEN 10 ELSE 1

\* the value a set competes with for type T: its weight, for 1rm the
\* Brzycki estimate
Brzycki(weight, reps) ==
  IF reps = 1 THEN [num |-> weight, den |-> 1]
  ELSE Frac(weight * 36, 37 - reps)
Candidate(T, weight, reps) ==
  IF T = "1rm" THEN Brzycki(weight, reps) ELSE [num |-> weight, den |-> 1]

RowsOnFile(P, E, T) == {r \in P : r.exerciseLibraryId = E /\ r.recordType = T}

\* value v is strictly greater than every value on file for (E, T)
ExceedsAllOnFile(P, E, T, v) ==
  \A r \in RowsOnFile(P, E, T) : r.value.num * v.den < v.num * r.value.den

\* a step that is one checkAndUpdatePR call: a workout of a single set
OneSetLogged ==
  lastOp'.op = "createWorkout" /\ nOps' = nOps + 1 /\ Len(lastOp'.arg[2]) = 1

\* C16: one checkAndUpdatePR call for exercise E inserts exactly one row for
\* (E, T) iff T applies (always for max_weight and 1rm, for 3rm/5rm/10rm when
\* reps >= 3/5/10) and the candidate value strictly exceeds the maximum on
\* file for (E, T) or no such row exists; otherwise it inserts no row for
\* (E, T); a set that only ties the current best inserts nothing.
C16_InsertsIffBeats ==
  [][OneSetLogged =>
       LET E == lastOp'.arg[1]
           weight == lastOp'.arg[2][1].weight
           reps == lastOp'.arg[2][1].reps
           inserted == {r \in personal_records' :
                          \A o \in personal_records : o.id # r.id}
       IN  /\ personal_records \subseteq personal_records'
           /\ \A r \in inserted : r.exerciseLibraryId = E
           /\ \A T \in RecordTypes :
                IF /\ reps >= RepsNeeded(T)
                   /\ ExceedsAllOnFile(personal_records, E, T,
                                       Candidate(T, weight, reps))
                THEN \E r \in inserted :
                       /\ r.value = Candidate(T, weight, reps)
                       /\ RowsOnFile(inserted, E, T) = {r}
                ELSE RowsOnFile(inserted, E, T) = {}]_vars

\* C16 witness: a set tied the max weight on file, so no max_weight row came
\* of it, while its estimated 1RM was a new best and was inserted.
C16_Witness ==
  /\ lastOp.op = "createWorkout"
  /\ Len(lastOp.arg[2]) = 1
  /\ LET E == lastOp.arg[1]
         weight == lastOp.arg[2][1].weight
         mine == {r \in personal_records : r.workoutId = Val(lastOp.arg[3])}
     IN  /\ \E r \in RowsOnFile(personal_records, E, "max_weight") :
              r.value = [num |-> weight, den |-> 1]
         /\ RowsOnFile(mine, E, "max_weight") = {}
         /\ RowsOnFile(mine, E, "1rm") # {}
ValueLess(a, b) == a.value.num * b.value.den < b.value.num * a.value.den

\* C17: over any sequence of createWorkout (with its checkAndUpdatePR calls)
\* and deleteWorkout calls, no personal_records row is deleted or has its
\* value changed, every newly inserted (E, T) row has a value strictly
\* greater than all earlier (E, T) rows, and so the maximum value stored for
\* (E, T) never decreases.
C17_RecordsOnlyGrow ==
  [][LET kept(r) == {n \in personal_records' : n.id = r.id}
         inserted == {n \in personal_records' :
                        \A o \in personal_records : o.id # n.id}
         same(a, b) == /\ a.exerciseLibraryId = b.exerciseLibraryId
                       /\ a.recordType = b.recordType
     IN  /\ \A r \in personal_records :
              \E n \in kept(r) : n.value = r.value /\ same(n, r)
         /\ \A n \in inserted :
              /\ \A r \in personal_records : same(r, n) => ValueLess(r, n)
              /\ \A m \in inserted :
                   (same(m, n) /\ m.id < n.id) => ValueLess(m, n)
         /\ \A r \in personal_records :
              \E n \in personal_records' :
                same(n, r) /\ \A o \in personal_records :
                                 same(o, r) => ~ValueLess(n, o)]_vars

\* C17 witness: a workout that holds records was deleted under enforced
\* foreign keys; its records stay, without their workoutId, next to a later
\* and greater record of the same exercise and type.
C17_Witness ==
  /\ lastOp.op = "deleteWorkout"
  /\ \E r \in personal_records :
       /\ r.workoutId = NULL
       /\ \E n \in personal_records :
            /\ n.exerciseLibraryId = r.exerciseLibraryId
            /\ n.recordType = r.recordType
            /\ n.workoutId # NULL
            /\ ValueLess(r, n)
\* C18: for every weight and every reps in 1..36, the value checkAndUpdatePR
\* stores for the 1rm category and the value calculateEstimated1RM returns
\* both equal weight when reps = 1 and weight * 36 / (37 - reps) otherwise.
C18_BrzyckiEverywhere ==
  /\ lastOp.op = "calculateEstimated1RM"
       => lastOp.ret[1] = Brzycki(lastOp.arg[1], lastOp.arg[2])
  /\ \A r \in personal_records :
       r.recordType = "1rm" => r.value = Brzycki(r.weight, r.reps)
\* a step in which the call of a caller makes its last write
Completes(caller) == calls[caller].pc # "idle" /\ calls'[caller].pc = "idle"

\* C19: overlapping updateStreak calls are not safe.  A call that read "no
\* active streak" inserts an active streak whatever the table holds by then,
\* so two calls that both read before either writes leave two active
\* streaks; a call that found a streak writes the length it computed, also
\* when a run the other call inserted since is not counted in it.
C19_WritesWhatItRead ==
  [][\A caller \in Callers :
       Completes(caller) =>
         IF calls[caller].pc = "insert"
         THEN \E row \in streaks' :
                /\ \A s \in streaks : s.id # row.id
                /\ streaks' = streaks \cup {row}
                /\ row.isActive /\ row.currentLength = 1
                /\ Val(row.startDate) = calls[caller].runDate
         ELSE /\ {s.id : s \in streaks'} = {s.id : s \in streaks}
              /\ \A n \in streaks' :
                   IF Val(n.id) = {cs.id : cs \in calls[caller].currentStreak}
                   THEN Val(n.currentLength) = calls[caller].newLength
                   ELSE n \in streaks]_vars

\* C19 witness: two streaks are active, and the call that wrote last
\* persisted a length computed before a run now in the table was visible,
\* which is not the length of the streak on that table.
C19_Witness ==
  /\ calls = NoCalls
  /\ Cardinality({s \in streaks : s.isActive}) = 2
  /\ lastOp.op \in Callers
  /\ lastOp.ret[1] = "update"
  /\ lastOp.ret[4] # {r.id : r \in runs}
  /\ \E s \in streaks : s.id = lastOp.ret[2] /\ s.currentLength = lastOp.ret[3]
  /\ lastOp.ret[3] # calculateCurrentStreak(runs, streaks, streak_freezes,
                                             tz, now, 0, 0)
\* a step in which createRun, the HealthKit import or deleteRun wrote table
\* runs
RunsWritten ==
  /\ now' = now
  /\ runs' # runs
  /\ lastOp'.op \in {"createRun", "importWorkout", "deleteRun"}

\* C20: immediately after createRun, a HealthKit run import or deleteRun
\* completes, the active streak's stored currentLength equals what
\* calculateCurrentStreak(0, 0) returns on the resulting store.
C20_LengthIsRecomputed ==
  [][RunsWritten
       => \A s \in streaks' :
            s.isActive =>
              s.currentLength = calculateCurrentStreak(runs', streaks', streak_freezes',
                                                       tz, now, 0, 0)]_vars

\* C21: when the action is add_reps, suggestedReps is the rounded average of
\* totalReps per session over the up to 3 most recent sessions, plus 1.
C21_AddRepsIsAveragePlusOne ==
  (Recommended /\ Len(BenchHistory) >= 2 /\ Recommendation.action = "add_reps")
    => Recommendation.suggestedReps =
         Val(MathRound(SumSeq([i \in 1..Len(BenchRecent) |-> BenchRecent[i].totalReps]),
                       Len(BenchRecent)) + 1)

\* what the claim calls consistent: at least 2 sessions, whose max weights
\* are all equal or all less than 5% of their mean away from it
WithinFivePercent(sessions) ==
  LET n == Len(sessions)
      sum == SumSeq([i \in 1..n |-> sessions[i].maxWeight])
  IN  /\ n >= 2
      /\ \/ \A i, j \in 1..n : sessions[i].maxWeight = sessions[j].maxWeight
         \/ \A i \in 1..n : 20 * Abs(sessions[i].maxWeight * n - sum) < sum

\* C22: the most recent up to 3 sessions are classified consistent iff there
\* are at least 2 of them and every max weight is within 5% of their mean;
\* equal max weights, 0 included, are consistent and one session never is.
C22_ConsistentIffWithinFivePercent ==
  Recommended => (checkConsistency(BenchRecent) <=> WithinFivePercent(BenchRecent))

\* the trend of the claim, as a fraction: (mean of the two most recent total
\* volumes - mean of the two oldest) / (mean of the two oldest), compared
\* with -0.10
TrendBelowMinusTenPercent(history) ==
  LET n == Len(history)
      recent == history[1].totalVolume + history[2].totalVolume
      oldest == history[n - 1].totalVolume + history[n].totalVolume
  IN  oldest > 0 /\ 10 * (recent - oldest) < 0 - oldest

\* C23: a fetched history of 2 to 5 sessions is regressing iff its volume
\* trend is below -0.10; a history of exactly 2 sessions is never regressing
\* and never yields deload.
C23_RegressingIffTrendBelow ==
  (Recommended /\ Len(BenchHistory) >= 2) =>
    /\ Len(BenchHistory) <= 5
    /\ isRegressing(BenchHistory) <=> TrendBelowMinusTenPercent(BenchHistory)
    /\ Len(BenchHistory) = 2 =>
         /\ ~isRegressing(BenchHistory)
         /\ Recommendation.action # "deload"
    /\ Recommendation.action = "deload" => isRegressing(BenchHistory)

\* C23 witness: with more than five sessions logged, a recommendation of
\* deload on a history whose three most recent sessions alone show no drop
\* in volume.
C23_Witness ==
  /\ Recommended
  /\ Cardinality(exercises) > 5
  /\ Len(BenchHistory) = 5
  /\ isRegressing(BenchHistory)
  /\ ~isRegressingRecentOnly(BenchHistory)
  /\ Recommendation.action = "deload"

\* a step in which createRun or the HealthKit import reached updateStreak
\* with a streak active, the UPDATE branch
StreakUpdated ==
  /\ now' = now
  /\ runs' # runs
  /\ lastOp'.op \in {"createRun", "importWorkout"}
  /\ lastOp'.ret = <<"update">>

\* C24: after updateStreak completes on an existing active streak, the
\* currentLength it stored equals calculateCurrentStreak evaluated with the
\* configured thresholds streakMinDistance and streakMinDuration on the same
\* store, the value the screens display.
C24_StoredIsDisplayed ==
  [][StreakUpdated
       => \A s \in getCurrentStreak(streaks') :
            s.currentLength = calculateCurrentStreak(runs', streaks', streak_freezes',
                                                     tz, now, streakMinDistance,
                                                     streakMinDuration)]_vars

\* C25: endStreak, writing nothing but its own UPDATE, leaves the value of
\* calculateCurrentStreak unchanged for every pair of thresholds, also when
\* the walk passes over days covered by freezes only.
C25_EndStreakKeepsComputedStreak ==
  [][(now' = now /\ lastOp'.op = "endStreak")
       => \A minDistance \in MinDistances, minDuration \in MinDurations :
            calculateCurrentStreak(runs', streaks', streak_freezes', tz, now,
                                   minDistance, minDuration)
              = calculateCurrentStreak(runs, streaks, streak_freezes, tz, now,
                                       minDistance, minDuration)]_vars

\* C26: no streak has more than 2 streak_freezes rows dated within one
\* calendar month, whatever the dates useStreakFreeze was called with.
C26_AtMostTwoFreezesPerMonth ==
  \A s \in streaks : \A d \in Days :
    Cardinality({sf \in streak_freezes :
                   sf.streakId = s.id /\ monthOf(sf.date) = monthOf(d)}) <= 2

\* C27: when one of the two writes of useStreakFreeze fails, the error
\* reaches the caller and the store holds neither the new streak_freezes row
\* nor the freezesUsed increment, so that freezesUsed still counts the
\* streak's freeze rows.
C27_FreezeAllOrNothing ==
  [][(now' = now /\ lastOp'.op = "useStreakFreeze" /\ lastOp'.arg \in {<<1>>, <<2>>})
       => /\ lastOp'.ret = <<"error">>
          /\ streak_freezes' = streak_freezes
          /\ streaks' = streaks
          /\ \A s \in streaks' :
               s.freezesUsed
                 = Cardinality({sf \in streak_freezes' : sf.streakId = s.id})]_vars

\* the rep categories from the lowest number of reps up, and a best of one
\* that is at least every value of another
RepLadder == <<"max_weight", "3rm", "5rm", "10rm">>
BestAtLeast(lower, higher) ==
  \A r \in RowsOnFile(personal_records, "bench", higher) :
    \E o \in RowsOnFile(personal_records, "bench", lower) : ~ValueLess(o, r)

\* C28: for one exercise, best(max_weight) >= best(3rm) >= best(5rm) >=
\* best(10rm) wherever the rows exist, and a row of a higher-rep category
\* exists only if rows of max_weight and of every lower-rep category exist.
C28_BestsOrdered ==
  \A i, j \in 1..Len(RepLadder) :
    (i < j /\ RowsOnFile(personal_records, "bench", RepLadder[j]) # {})
      => /\ RowsOnFile(personal_records, "bench", RepLadder[i]) # {}
         /\ BestAtLeast(RepLadder[i], RepLadder[j])

\* C28 witness: three sets left the bests strictly ordered, max_weight 110
\* above 3rm 105 above 5rm 100, with no 10rm row.
C28_Witness ==
  /\ lastOp.op = "createWorkout"
  /\ \A r \in RowsOnFile(personal_records, "bench", "max_weight") \cup
               RowsOnFile(personal_records, "bench", "3rm") \cup
               RowsOnFile(personal_records, "bench", "5rm") :
       r.value = Frac(IF r.recordType = "max_weight" THEN 110
                      ELSE IF r.recordType = "3rm" THEN 105 ELSE 100, 1)
  /\ \A T \in {"max_weight", "3rm", "5rm"} :
       RowsOnFile(personal_records, "bench", T) # {}
  /\ RowsOnFile(personal_records, "bench", "10rm") = {}

\* C29: every personal_records row of type 1rm has a finite value that is at
\* least the weight of the set that produced it, whatever the reps of the
\* set, 0 and 37 or more included.
C29_OneRMFiniteAtLeastWeight ==
  \A r \in personal_records :
    r.recordType = "1rm" =>
      /\ r.value.den > 0
      /\ r.value.num >= r.weight * r.value.den

\* C30: at most one syncRecentFromHealthKit call of a hook instance is in
\* flight at any time, and no two syncs start less than 30 seconds apart.
C30_OneSyncInFlight ==
  /\ Cardinality(inFlight) <= 1
  /\ \A a, b \in syncStarts : a < b => b - a >= MIN_SYNC_INTERVAL
====
